---- MODULE Spec2Model ----
(***************************************************************************)
(* Model of the synthetic telemetry generator of the dashboard:            *)
(*   - MetricsGenerator (generateDataPoint, generateHistoricalData)        *)
(*   - the node population (generateNodeMetrics, updateNodeMetrics)        *)
(*                                                                         *)
(* Numbers.  The source computes with JavaScript numbers; the model keeps  *)
(* every quantity as an exact integer count of a fixed fraction:           *)
(*   a Math.random() result   d   stands for d/16        (d in 0..15)      *)
(*   cpuTrend, memoryTrend, cpu, memory          in 1/32                   *)
(*   rps (after Math.round)                      in units                  *)
(*   p50, p95, p99 (after rounding)              in tenths of a ms         *)
(*   errorRate (after rounding)                  in hundredths of a %      *)
(*   node health (stored, after Math.round)      in units                  *)
(*   node load                                   in halves                 *)
(* Math.round(x) is floor(x + 1/2), which is what \div computes below.     *)
(***************************************************************************)
EXTENDS Integers, Sequences, FiniteSets, TLC

VARIABLES
    gen,        \* MetricsGenerator fields: cpuTrend, memoryTrend, errorSpikeCooldown
    sample,     \* the MetricDataPoint returned by the last generateDataPoint
    branch,     \* which error-rate branch the last generateDataPoint took
    rolled,     \* whether the last generateDataPoint evaluated the idle roll
    age,        \* generateDataPoint calls since the last spike call (0: no spike yet)
    errorDraw,  \* the Math.random() result behind the base error rate of the last call
    clock,      \* Date.now()
    pc,         \* generateHistoricalData: "idle", "loop" (inside), "returned" (just returned)
    hist,       \* arguments and locals of generateHistoricalData: now, points, i
    data,       \* local array `data` of generateHistoricalData
    result,     \* the array returned by the last generateHistoricalData
    calls,      \* backfill session: generateDataPoint calls made so far
    entry,      \* backfill session: generator fields at the entry of the last
                \* generateHistoricalData (at construction before the first)
    used,       \* backfill session: Math.random() results consumed since `entry`
    nodes,      \* the NodeMetric[] population held by the caller
    nodeTicks,  \* updateNodeMetrics calls applied to the population
    before,     \* the population passed to the last updateNodeMetrics
    tickOffset, \* where the last updateNodeMetrics started in NodeTickDraws
    heap,       \* object store: address -> node object or array of addresses
    held,       \* object store: address of the array the caller holds
    prior,      \* object store: address of the array passed to the last call
    mounted,    \* Dashboard: mounted, first effects run
    selectedRange,        \* Dashboard state: minutes of the selected TimeRange
    isLive,               \* Dashboard state
    metricsData,          \* Dashboard state: the window of samples, each named by the
                          \* number of generateDataPoint calls made after its own
    timers,               \* window timers: records [id, kind, remaining, args]
    metricsIntervalRef,   \* Dashboard ref (0: undefined)
    nodesIntervalRef,     \* Dashboard ref (0: undefined)
    throttle,             \* useThrottle refs of the two throttled updates
    advanced,   \* Dashboard: generateDataPoint calls made by the last handler
    created,    \* Dashboard: generateNodeMetrics calls so far (counted up to a cap)
    event,      \* Dashboard: what the last step was
    runs        \* useThrottle on its own: per throttled function, the time since
                \* its callback last ran and the time between its last two runs

genVars  == <<gen, sample, branch, rolled, age, errorDraw>>
histVars == <<pc, hist, data, result, calls, entry, used>>
nodeVars == <<nodes, nodeTicks>>
obsVars  == <<before, tickOffset>>
heapVars == <<heap, held, prior>>
dashVars == <<mounted, selectedRange, isLive, metricsData, timers,
              metricsIntervalRef, nodesIntervalRef, throttle,
              advanced, created, event>>
vars     == <<gen, sample, branch, rolled, age, errorDraw, clock,
              pc, hist, data, result, calls, entry, used, nodes, nodeTicks,
              before, tickOffset, heap, held, prior,
              mounted, selectedRange, isLive, metricsData, timers,
              metricsIntervalRef, nodesIntervalRef, throttle,
              advanced, created, event, runs>>

Max(a, b) == IF a >= b THEN a ELSE b
Min(a, b) == IF a <= b THEN a ELSE b
Abs(a)    == IF a < 0 THEN -a ELSE a

(***************************************************************************)
(* MetricsGenerator                                                        *)
(***************************************************************************)
baselineCpu    == 45
baselineMemory == 60
SPIKE_COOLDOWN == 15

InitialGenerator ==
    [cpuTrend |-> 0, memoryTrend |-> 0, errorSpikeCooldown |-> 0]

\* this.cpuTrend += (Math.random() - 0.5) * 2, in 1/32
CpuTrendStep(d) == 4 * (d - 8)
\* this.memoryTrend += (Math.random() - 0.5) * 1.5, in 1/32
MemoryTrendStep(d) == 3 * (d - 8)

\* Math.max(-15, Math.min(15, this.cpuTrend)), in 1/32
ClampCpuTrendWide(t) == Max(-25 * 32, Min(25 * 32, t))
ClampCpuTrend(t) == Max(-15 * 32, Min(15 * 32, t))
\* Math.max(-10, Math.min(10, this.memoryTrend)), in 1/32
ClampMemoryTrend(t) == Max(-10 * 32, Min(10 * 32, t))

\* cpu = clamp(baselineCpu + cpuTrend + (Math.random() - 0.5) * 8), in 1/32
CpuValueWideNoise(trend, d) ==
    Max(0, Min(100 * 32, baselineCpu * 32 + trend + 32 * (d - 8)))
CpuValue(trend, d) ==
    Max(0, Min(100 * 32, baselineCpu * 32 + trend + 16 * (d - 8)))
\* memory = clamp(baselineMemory + memoryTrend + (Math.random() - 0.5) * 6), in 1/32
MemoryValue(trend, d) ==
    Max(0, Min(100 * 32, baselineMemory * 32 + trend + 12 * (d - 8)))

\* rps = max(0, 1200 * (0.5 + cpu/100 * 0.8) + (Math.random() - 0.5) * 200), in tenths:
\* 600 + 3*cpu32/10 + 25*(d-8)/2
RpsValue(cpu, d) == Max(0, 6000 + 3 * cpu + 125 * (d - 8))
\* Math.round(rps), from tenths to units
RoundRps(rps) == (rps + 5) \div 10

\* p50 = max(5, 45 + cpu/100 * 80 + (Math.random() - 0.5) * 15), in 1/80:
\* 45 + cpu32/40 + 15*(d-8)/16
P50Value(cpu, d) == Max(5 * 80, 45 * 80 + 2 * cpu + 75 * (d - 8))
\* p95 = p50 * (2.2 + Math.random() * 0.4) = p50 * (88 + d)/40, in 1/3200
P95ValueNoFanOut(p50, d) == p50 * (40 + d)
P95Value(p50, d) == p50 * (88 + d)
\* p99 = p95 * (1.8 + Math.random() * 0.3) = p95 * (288 + 3d)/160, in 1/512000
P99Value(p95, d) == p95 * (288 + 3 * d)
\* Math.round(x * 10) / 10 for x in 1/80, 1/3200 and 1/512000; results in tenths
RoundP50(p) == (p + 4) \div 8
RoundP95(p) == (p + 160) \div 320
RoundP99(p) == (p + 25600) \div 51200

\* errorRate = 0.05 + cpu/100 * 0.15 + Math.random() * 0.1, in 1/64000:
\* 3200/64000 + 3*cpu32/64000 + 400*d/64000
BaseErrorRateSignSlip(cpu, d) == 3200 - 3 * cpu + 400 * d
BaseErrorRate(cpu, d) == 3200 + 3 * cpu + 400 * d
\* errorRate = 2.0 + Math.random() * 3.0, in 1/64000
SpikeErrorRate(d) == 128000 + 12000 * d
\* errorRate = 0.5 + Math.random() * 1.0, in 1/64000
PlateauErrorRateDoubled(d) == 32000 + 8000 * d
PlateauErrorRate(d) == 32000 + 4000 * d
\* Math.round(errorRate * 100) / 100, from 1/64000 to hundredths
RoundErrorRate(e) == (e + 320) \div 640

\* if (this.errorSpikeCooldown > 0) this.errorSpikeCooldown--
DecrementCooldownByTwo(c) == IF c > 0 THEN Max(c - 2, 0) ELSE c
DecrementCooldown(c) == IF c > 0 THEN c - 1 ELSE c
\* Math.random() < 0.02
SpikeRoll(d) == d * 50 < 16
\* this.errorSpikeCooldown > 0 && this.errorSpikeCooldown < 5
InPlateauThroughFive(c) == c > 0 /\ c <= 5
InPlateau(c) == c > 0 /\ c < 5

\* generateDataPoint(timestamp) with the Math.random() results dv, on fields g:
\* the fields after the call, the returned point, and what the call did.
GenerateDataPoint(g, timestamp, dv) ==
    LET cpuTrend    == ClampCpuTrend(g.cpuTrend + CpuTrendStep(dv.cpuTrend))
        memoryTrend == ClampMemoryTrend(g.memoryTrend + MemoryTrendStep(dv.memoryTrend))
        cpu         == CpuValue(cpuTrend, dv.cpu)
        memory      == MemoryValue(memoryTrend, dv.memory)
        rps         == RpsValue(cpu, dv.rps)
        p50         == P50Value(cpu, dv.p50)
        p95         == P95Value(p50, dv.p95)
        p99         == P99Value(p95, dv.p99)
        cooldown    == DecrementCooldown(g.errorSpikeCooldown)
        idle        == cooldown = 0
        spike       == idle /\ SpikeRoll(dv.roll)
        plateau     == ~spike /\ InPlateau(cooldown)
        errorRate   == IF spike THEN SpikeErrorRate(dv.burst)
                       ELSE IF plateau THEN PlateauErrorRate(dv.burst)
                       ELSE BaseErrorRate(cpu, dv.error)
    IN  [state  |-> [cpuTrend |-> cpuTrend, memoryTrend |-> memoryTrend,
                     errorSpikeCooldown |->
                         IF spike THEN SPIKE_COOLDOWN ELSE cooldown],
         point  |-> [timestamp |-> timestamp,
                     cpu       |-> cpu,
                     memory    |-> memory,
                     rps       |-> RoundRps(rps),
                     p50       |-> RoundP50(p50),
                     p95       |-> RoundP95(p95),
                     p99       |-> RoundP99(p99),
                     errorRate |-> RoundErrorRate(errorRate)],
         branch |-> IF spike THEN "spike" ELSE IF plateau THEN "plateau" ELSE "base",
         rolled |-> idle]

(***************************************************************************)
(* Math.random().  One record holds the results of the calls of one        *)
(* generateDataPoint, named by what each feeds.  Results are grouped: the  *)
(* two trend draws share a level, the four load-noise draws share a level, *)
(* the tail draws (p95, p99, error) share a level; the idle roll is free.  *)
(***************************************************************************)
TrendLevels == {0, 8, 12}
NoiseLevels == {0, 15}
TailLevels  == {0, 15}
RollLevels  == {0, 8}

DrawVector(t, n, f, r) ==
    [cpuTrend |-> t, memoryTrend |-> t,
     cpu |-> n, memory |-> n, rps |-> n, p50 |-> n,
     p95 |-> f, p99 |-> f, error |-> f, burst |-> f,
     roll |-> r]

DrawVectors ==
    {DrawVector(t, n, f, r) :
        t \in TrendLevels, n \in NoiseLevels, f \in TailLevels, r \in RollLevels}

NoSample == [timestamp |-> 0, cpu |-> 0, memory |-> 0, rps |-> 0,
             p50 |-> 0, p95 |-> 0, p99 |-> 0, errorRate |-> 0]

AGE_CAP == 16

\* calls since the last spike call, as seen by the call that follows
NextAge(a, b) ==
    IF b = "spike" THEN 1
    ELSE IF a = 0 THEN 0
    ELSE Min(a + 1, AGE_CAP)

\* the effect of one generateDataPoint call with outcome r on the generator
\* and on what the caller observes
ApplyDataPoint(r, dv) ==
    /\ gen' = r.state
    /\ sample' = r.point
    /\ age' = NextAge(age, branch)
    /\ branch' = r.branch
    /\ rolled' = r.rolled
    /\ errorDraw' = dv.error

GenInit ==
    /\ gen = InitialGenerator
    /\ sample = NoSample
    /\ branch = "none"
    /\ rolled = FALSE
    /\ age = 0
    /\ errorDraw = 0

HistIdle ==
    /\ pc = "idle"
    /\ hist = [now |-> 0, points |-> 0, i |-> 0, intervalMs |-> 0, minutes |-> 0]
    /\ data = <<>>
    /\ result = <<>>
    /\ calls = 0
    /\ entry = InitialGenerator
    /\ used = <<>>

NodesIdle ==
    /\ nodes = <<>>
    /\ nodeTicks = 0
    /\ before = <<>>
    /\ tickOffset = 0

\* an address is <<allocation, slot>>; NoAddress is never allocated
NoAddress == <<0, 0>>

\* useState<NodeMetrics[]>([]): the caller starts with an empty array
HeapIdle ==
    /\ heap = (<<1, 0>> :> [items |-> <<>>])
    /\ held = <<1, 0>>
    /\ prior = NoAddress

\* the Dashboard before it is mounted: the useState and useRef initial values
DashIdle ==
    /\ mounted = FALSE
    /\ selectedRange = 5
    /\ isLive = TRUE
    /\ metricsData = <<>>
    /\ timers = {}
    /\ metricsIntervalRef = 0
    /\ nodesIntervalRef = 0
    /\ throttle = [t \in {"metrics", "nodes"} |->
                      [lastRun |-> -1, timeoutRef |-> 0]]
    /\ advanced = 0
    /\ created = 0
    /\ event = "none"
    /\ runs = [target \in {"metrics", "nodes"} |-> [since |-> -1, gap |-> -1]]

(***************************************************************************)
(* Live ticking: the interval callback of the Dashboard calls              *)
(* generateDataPoint(Date.now()) again and again on the one generator.     *)
(***************************************************************************)
Tick ==
    /\ \E dv \in DrawVectors :
           ApplyDataPoint(GenerateDataPoint(gen, clock, dv), dv)
    /\ UNCHANGED <<clock, histVars, nodeVars, obsVars, heapVars, dashVars, runs>>

Init ==
    /\ GenInit
    /\ clock = 0
    /\ HistIdle
    /\ NodesIdle
    /\ HeapIdle
    /\ DashIdle

Next == Tick

Spec == Init /\ [][Next]_vars

(***************************************************************************)
(* Properties of generateDataPoint under live ticking (Spec)               *)
(***************************************************************************)
Returned == branch # "none"

\* C2: every point returned by generateDataPoint has 0 <= cpu <= 100,
\* 0 <= memory <= 100, rps a non-negative integer and errorRate >= 0.
C2_SampleRanges ==
    Returned =>
        /\ 0 <= sample.cpu /\ sample.cpu <= 100 * 32
        /\ 0 <= sample.memory /\ sample.memory <= 100 * 32
        /\ sample.rps \in Nat
        /\ sample.errorRate >= 0

\* a point returned while both trends sit on their lower clamps and the noise
\* draws are lowest: the smallest cpu and memory the generator produces
C2_Witness ==
    /\ Returned
    /\ gen.cpuTrend = -15 * 32 /\ gen.memoryTrend = -10 * 32
    /\ sample.cpu = (baselineCpu - 15 - 4) * 32
    /\ sample.memory = (baselineMemory - 10 - 3) * 32

\* C3: after rounding each latency to one decimal place, every returned point
\* has 0 < p50 < p95 < p99, strictly.
C3_LatencyOrder ==
    Returned =>
        /\ 0 < sample.p50
        /\ sample.p50 < sample.p95
        /\ sample.p95 < sample.p99

\* a point whose p95 and p99 factors are the smallest ones (2.2 and 1.8), at
\* the smallest cpu: the percentiles are as close together as they get
C3_Witness ==
    /\ Returned
    /\ errorDraw = 0
    /\ sample.cpu = (baselineCpu - 15 - 4) * 32
    /\ sample.p95 * 10 <= sample.p50 * 22 + 5

\* C4: after every generateDataPoint, cpuTrend is within [-15, 15] and
\* memoryTrend within [-10, 10].
C4_TrendBounds ==
    /\ -15 * 32 <= gen.cpuTrend /\ gen.cpuTrend <= 15 * 32
    /\ -10 * 32 <= gen.memoryTrend /\ gen.memoryTrend <= 10 * 32

\* both trends sit on their lower clamps; -10 is no sum of memory steps, so
\* the clamp has cut a step short
C4_Witness ==
    /\ Returned
    /\ gen.memoryTrend = -10 * 32
    /\ gen.cpuTrend = -15 * 32

\* C5: the call that triggers a spike returns errorRate in [2.0, 5.0] and sets
\* the cooldown to 15; the next 10 calls (cooldown 14..5) return the base
\* formula; the 4 calls after those (cooldown 4..1) return errorRate in
\* [0.5, 1.5]; on the call after that the cooldown is 0 and the idle roll is
\* evaluated again.
C5_SpikeCycle ==
    /\ branch = "spike" =>
          /\ rolled
          /\ gen.errorSpikeCooldown = 15
          /\ 200 <= sample.errorRate /\ sample.errorRate <= 500
    /\ age \in 1..10 =>
          /\ branch = "base"
          /\ ~rolled
          /\ gen.errorSpikeCooldown = 15 - age
          /\ sample.errorRate = RoundErrorRate(BaseErrorRate(sample.cpu, errorDraw))
    /\ age \in 11..14 =>
          /\ branch = "plateau"
          /\ ~rolled
          /\ gen.errorSpikeCooldown = 15 - age
          /\ 50 <= sample.errorRate /\ sample.errorRate <= 150
    /\ age = 15 =>
          /\ rolled
          /\ branch \in {"spike", "base"}
          /\ branch = "base" => gen.errorSpikeCooldown = 0

\* the 15th call after a spike triggers the next spike
C5_Witness ==
    /\ age = 15
    /\ branch = "spike"
    /\ gen.errorSpikeCooldown = 15

(***************************************************************************)
(* generateHistoricalData(minutes, intervalMs), step by step, in a session *)
(* that mixes backfills with live generateDataPoint(Date.now()) calls on   *)
(* the one generator (Dashboard: initializeData, handleRangeChange, the    *)
(* metrics interval).                                                      *)
(***************************************************************************)
MaxCalls   == 4
MaxMinutes == 1
EPOCH      == 3600000

Minutes     == {-5, 0} \cup (1..MaxMinutes)
IntervalsMs == {25000, 30000, 60000}

BackfillDraws ==
    {DrawVector(0, 0, 0, r) : r \in RollLevels}
        \cup {DrawVector(12, 15, 15, r) : r \in RollLevels}

\* Math.floor((minutes * 60 * 1000) / intervalMs), intervalMs > 0
HistoricalPoints(minutes, intervalMs) == (minutes * 60 * 1000) \div intervalMs

\* for (...; i < points; ...)
LoopContinuesInclusive(i, points) == i <= points
LoopContinues(i, points) == i < points

\* const timestamp = now - (points - i) * intervalMs
HistoricalTimestampCountingBack(now, points, i, intervalMs) == now - i * intervalMs
HistoricalTimestamp(now, points, i, intervalMs) == now - (points - i) * intervalMs

\* this.generateDataPoint(timestamp) inside the loop
HistoricalDataPointFresh(g, timestamp, dv) ==
    GenerateDataPoint(InitialGenerator, timestamp, dv)
HistoricalDataPoint(g, timestamp, dv) == GenerateDataPoint(g, timestamp, dv)

\* entry of generateHistoricalData: now, points, data = []
CallHistorical ==
    /\ pc \in {"idle", "returned"}
    /\ \E minutes \in Minutes, intervalMs \in IntervalsMs :
          LET points == HistoricalPoints(minutes, intervalMs)
          IN  /\ calls + Max(points, 0) <= MaxCalls
              /\ hist' = [now |-> clock, points |-> points, i |-> 0,
                          intervalMs |-> intervalMs, minutes |-> minutes]
    /\ data' = <<>>
    /\ entry' = gen
    /\ used' = <<>>
    /\ pc' = "loop"
    /\ UNCHANGED <<genVars, clock, result, calls, nodeVars, obsVars, heapVars, dashVars, runs>>

\* one iteration of the loop: data.push(this.generateDataPoint(timestamp))
HistoricalLoop ==
    /\ pc = "loop"
    /\ LoopContinues(hist.i, hist.points)
    /\ \E dv \in BackfillDraws :
          LET timestamp == HistoricalTimestamp(hist.now, hist.points, hist.i,
                                               hist.intervalMs)
              r == HistoricalDataPoint(gen, timestamp, dv)
          IN  /\ ApplyDataPoint(r, dv)
              /\ data' = Append(data, r.point)
              /\ used' = Append(used, dv)
    /\ hist' = [hist EXCEPT !.i = @ + 1]
    /\ calls' = calls + 1
    /\ UNCHANGED <<clock, pc, result, entry, nodeVars, obsVars, heapVars, dashVars, runs>>

\* loop exit: return data
HistoricalReturn ==
    /\ pc = "loop"
    /\ ~LoopContinues(hist.i, hist.points)
    /\ result' = data
    /\ pc' = "returned"
    /\ UNCHANGED <<genVars, clock, hist, data, calls, entry, used, nodeVars, obsVars, heapVars, dashVars, runs>>

\* the metrics interval: generator.generateDataPoint(Date.now())
LiveTick ==
    /\ pc \in {"idle", "returned"}
    /\ calls < MaxCalls
    /\ \E dv \in BackfillDraws :
          /\ ApplyDataPoint(GenerateDataPoint(gen, clock, dv), dv)
          /\ used' = Append(used, dv)
    /\ calls' = calls + 1
    /\ pc' = "idle"
    /\ UNCHANGED <<clock, hist, data, result, entry, nodeVars, obsVars, heapVars, dashVars, runs>>

InitBackfill ==
    /\ GenInit
    /\ clock = EPOCH
    /\ HistIdle
    /\ NodesIdle
    /\ HeapIdle
    /\ DashIdle

NextBackfill ==
    \/ CallHistorical
    \/ HistoricalLoop
    \/ HistoricalReturn
    \/ LiveTick

SpecBackfill == InitBackfill /\ [][NextBackfill]_vars

\* the fields of a point other than its timestamp
Values(p) == [cpu |-> p.cpu, memory |-> p.memory, rps |-> p.rps, p50 |-> p.p50,
              p95 |-> p.p95, p99 |-> p.p99, errorRate |-> p.errorRate]

\* n successive generateDataPoint calls from fields g with the draws ds: the
\* fields after the last call and the points returned, in order
RECURSIVE SuccessiveCalls(_, _)
SuccessiveCalls(g, ds) ==
    IF ds = <<>> THEN [state |-> g, points |-> <<>>]
    ELSE LET r    == GenerateDataPoint(g, 0, Head(ds))
             rest == SuccessiveCalls(r.state, Tail(ds))
         IN  [state |-> rest.state, points |-> <<r.point>> \o rest.points]

\* C6: with minutes > 0 and intervalMs > 0, generateHistoricalData returns
\* exactly floor(minutes*60000/intervalMs) points with strictly increasing
\* timestamps.
C6_BackfillLength ==
    (pc = "returned" /\ hist.minutes > 0) =>
        /\ \E n \in 0..MaxCalls :
              /\ Len(result) = n
              /\ n * hist.intervalMs <= hist.minutes * 60000
              /\ hist.minutes * 60000 < (n + 1) * hist.intervalMs
        /\ \A k \in 1..(Len(result) - 1) :
              result[k].timestamp < result[k + 1].timestamp

\* a backfill of one minute at 25 s returned floor(2.4) = 2 points
C6_Witness ==
    /\ pc = "returned"
    /\ hist.minutes = 1 /\ hist.intervalMs = 25000
    /\ Len(result) = 2

\* C7: with zero or negative minutes generateHistoricalData returns an empty
\* sequence and leaves cpuTrend, memoryTrend and errorSpikeCooldown unchanged.
C7_EmptyBackfill ==
    (pc = "returned" /\ hist.minutes <= 0) =>
        /\ result = <<>>
        /\ gen = entry

\* a backfill of -5 minutes returned on a generator that earlier calls had
\* moved away from its initial fields
C7_Witness ==
    /\ pc = "returned"
    /\ hist.minutes = -5
    /\ result = <<>>
    /\ gen.cpuTrend # 0 /\ gen.errorSpikeCooldown > 0

\* C8: a backfill of N points leaves the generator fields, and returns the
\* point values, that N successive generateDataPoint calls with the same
\* draws give, and live calls after it continue from those fields.
C8_BackfillIsLiveTicking ==
    LET ref == SuccessiveCalls(entry, used)
    IN  /\ gen = ref.state
        /\ pc = "returned" =>
              /\ Len(result) = Len(used)
              /\ \A k \in 1..Len(result) :
                    Values(result[k]) = Values(ref.points[k])
        /\ (pc = "idle" /\ used # <<>>) =>
              Values(sample) = Values(ref.points[Len(used)])

\* a live call made after a two-point backfill that itself started from
\* fields moved by an earlier call
C8_Witness ==
    /\ pc = "idle"
    /\ Len(result) = 2
    /\ Len(used) = 3
    /\ entry # InitialGenerator

\* C9: the last point of a non-empty backfill carries the timestamp of the
\* moment generateHistoricalData was called.
C9_EndsAtNow ==
    (pc = "returned" /\ result # <<>>) =>
        result[Len(result)].timestamp = hist.now

(***************************************************************************)
(* The node population: generateNodeMetrics and updateNodeMetrics          *)
(***************************************************************************)
REGIONS    == <<"us-east", "us-west", "eu-central", "ap-south">>
NODE_COUNT == 24

MaxNodeTicks == 4
MaxHeapTicks == 2

\* getHealthStatus(health), health in 1/32
getHealthStatusExclusive(health) ==
    IF health > 80 * 32 THEN "healthy"
    ELSE IF health > 40 * 32 THEN "degraded"
    ELSE "down"
getHealthStatus(health) ==
    IF health >= 80 * 32 THEN "healthy"
    ELSE IF health >= 40 * 32 THEN "degraded"
    ELSE "down"

\* determineStatus(health), health in 1/32
determineStatus(health) ==
    IF health >= 80 * 32 THEN "healthy"
    ELSE IF health >= 40 * 32 THEN "degraded"
    ELSE "down"

\* Math.round(health), from 1/32 to units
RoundHealth(health) == (health + 16) \div 32

\* String(n) for n >= 0
Digits == <<"0", "1", "2", "3", "4", "5", "6", "7", "8", "9">>
RECURSIVE DecimalString(_)
DecimalString(n) ==
    IF n < 10 THEN Digits[n + 1]
    ELSE DecimalString(n \div 10) \o Digits[(n % 10) + 1]

\* s.padStart(width, fill), fill a single character; the length of s is given
RECURSIVE PadStart(_, _, _, _)
PadStart(s, len, width, fill) ==
    IF len >= width THEN s ELSE PadStart(fill \o s, len + 1, width, fill)

\* number of characters of String(n)
RECURSIVE DecimalLength(_)
DecimalLength(n) == IF n < 10 THEN 1 ELSE 1 + DecimalLength(n \div 10)

\* `node-${String(i + 1).padStart(2, "0")}`, i from 0
NodeIdUnpadded(i) == "node-" \o DecimalString(i + 1)
NodeId(i) ==
    "node-" \o PadStart(DecimalString(i + 1), DecimalLength(i + 1), 2, "0")

\* const regionIndex = i % REGIONS.length; REGIONS[regionIndex], i from 0
NodeRegion(i) == REGIONS[(i % Len(REGIONS)) + 1]

\* health = random > 0.15 ? 85 + random*15
\*        : random > 0.5 ? 50 + random*25 : 15 + random*20, in 1/32
InitialHealth(dn) ==
    IF dn.tier * 100 > 15 * 16 THEN 85 * 32 + 30 * dn.value
    ELSE IF dn.band * 2 > 16 THEN 50 * 32 + 50 * dn.value
    ELSE 15 * 32 + 40 * dn.value

\* Math.round(30 + Math.random() * 40), in halves
InitialLoad(d) == 2 * ((60 + 5 * d + 1) \div 2)

\* the node built for index i (from 0) by generateNodeMetrics
NewNode(i, dn) ==
    LET health == InitialHealth(dn)
    IN  [nodeId |-> NodeId(i),
         load   |-> InitialLoad(dn.load),
         health |-> RoundHealth(health),
         status |-> determineStatus(health),
         region |-> NodeRegion(i)]

\* healthDelta of updateNodeMetrics, in 1/32:
\* (random - 0.5) * 3, doubled in size for a down node whose 0.3 roll
\* succeeds, turned into -|delta| * 1.5 for a degraded node whose 0.1 roll
\* succeeds
\* Math.random() < 0.3 and Math.random() < 0.1
RecoveryRoll(d) == d * 10 < 3 * 16
DeclineRoll(d)  == d * 10 < 16

HealthDeltaDeclineUnrolled(status, dn) ==
    LET base == 6 * (dn.delta - 8)
    IN  IF status = "down" /\ RecoveryRoll(dn.recover) THEN Abs(base) * 2
        ELSE IF status = "degraded" THEN -((Abs(base) * 3) \div 2)
        ELSE base
HealthDelta(status, dn) ==
    LET base == 6 * (dn.delta - 8)
    IN  IF status = "down" /\ RecoveryRoll(dn.recover) THEN Abs(base) * 2
        ELSE IF status = "degraded" /\ DeclineRoll(dn.decline)
             THEN -((Abs(base) * 3) \div 2)
        ELSE base

\* newHealth = Math.max(0, Math.min(100, node.health + healthDelta)), in 1/32
NewHealthDoubleDelta(node, dn) ==
    Max(0, Min(100 * 32, 32 * node.health + 2 * HealthDelta(node.status, dn)))
NewHealth(node, dn) ==
    Max(0, Min(100 * 32, 32 * node.health + HealthDelta(node.status, dn)))

\* the node returned for `node` by the map of updateNodeMetrics
UpdatedNodeUnclamped(node, dn) ==
    LET newHealth == 32 * node.health + HealthDelta(node.status, dn)
    IN  [node EXCEPT
            !.load   = node.load + (dn.load - 8),
            !.health = RoundHealth(newHealth),
            !.status = determineStatus(newHealth)]
UpdatedNode(node, dn) ==
    LET newHealth == NewHealth(node, dn)
    IN  [node EXCEPT
            !.load   = Max(0, Min(100 * 2, node.load + (dn.load - 8))),
            !.health = RoundHealth(newHealth),
            !.status = determineStatus(newHealth)]

(***************************************************************************)
(* Math.random() for the population.  The draws of one node are one record;*)
(* a call hands the records of a fixed list to the nodes in rotation,      *)
(* starting at a freely chosen offset.                                     *)
(***************************************************************************)
NodeInitDraws ==
    << [load |-> 0,  tier |-> 15, band |-> 0,  value |-> 0],
       [load |-> 15, tier |-> 3,  band |-> 0,  value |-> 15],
       [load |-> 8,  tier |-> 0,  band |-> 15, value |-> 15],
       [load |-> 3,  tier |-> 2,  band |-> 9,  value |-> 0],
       [load |-> 15, tier |-> 0,  band |-> 0,  value |-> 15],
       [load |-> 0,  tier |-> 2,  band |-> 8,  value |-> 0],
       [load |-> 8,  tier |-> 8,  band |-> 8,  value |-> 8] >>

NodeTickDraws ==
    << [delta |-> 0,  recover |-> 0, decline |-> 0, load |-> 0],
       [delta |-> 12, recover |-> 0, decline |-> 8, load |-> 15],
       [delta |-> 15, recover |-> 8, decline |-> 8, load |-> 8],
       [delta |-> 0,  recover |-> 8, decline |-> 8, load |-> 15],
       [delta |-> 12, recover |-> 4, decline |-> 1, load |-> 0],
       [delta |-> 8,  recover |-> 5, decline |-> 2, load |-> 8] >>

Rotated(list, offset, i) == list[((i + offset) % Len(list)) + 1]

\* generateNodeMetrics(): Array.from({ length: NODE_COUNT }, (_, i) => ...)
generateNodeMetrics(offset) ==
    [k \in 1..NODE_COUNT |-> NewNode(k - 1, Rotated(NodeInitDraws, offset, k - 1))]

\* updateNodeMetrics(current): current.map((node) => ...)
updateNodeMetricsSkippingFirst(current, offset) ==
    [k \in 1..(Len(current) - 1) |->
        UpdatedNode(current[k + 1], Rotated(NodeTickDraws, offset, k))]
updateNodeMetrics(current, offset) ==
    [k \in 1..Len(current) |->
        UpdatedNode(current[k], Rotated(NodeTickDraws, offset, k - 1))]

(***************************************************************************)
(* The same two functions on an object heap: an array object holds the     *)
(* addresses of its elements, a node object holds the node's fields.       *)
(***************************************************************************)
\* the addresses of the next n objects the runtime allocates: the slots of
\* the first allocation number no live object carries
Fresh(h, n) ==
    LET taken == {a[1] : a \in DOMAIN h}
        b     == CHOOSE c \in 1..(Cardinality(taken) + 1) :
                     /\ c \notin taken
                     /\ \A d \in 1..(c - 1) : d \in taken
    IN  [i \in 1..n |-> <<b, i - 1>>]

\* the heap h with the objects objs stored at the addresses addrs
Stored(h, addrs, objs) ==
    [a \in DOMAIN h \cup {addrs[i] : i \in 1..Len(addrs)} |->
        IF \E i \in 1..Len(addrs) : addrs[i] = a
        THEN objs[CHOOSE i \in 1..Len(addrs) : addrs[i] = a]
        ELSE h[a]]

\* the population an array object denotes
Deref(h, array) == [k \in 1..Len(h[array].items) |-> h[h[array].items[k]]]

\* what the collector keeps: the arrays in roots and their elements
Collect(h, roots) ==
    LET live == (roots \cap DOMAIN h)
                  \cup UNION {{h[r].items[k] : k \in 1..Len(h[r].items)} :
                                 r \in roots \cap DOMAIN h}
    IN  [a \in live |-> h[a]]

\* Array.from({ length: NODE_COUNT }, ...): a new array of new node objects
generateNodeMetricsOnHeap(h, offset) ==
    LET addrs == Fresh(h, NODE_COUNT + 1)
        items == [k \in 1..NODE_COUNT |-> addrs[k + 1]]
        value == generateNodeMetrics(offset)
    IN  [heap   |-> Stored(h, addrs, <<[items |-> items]>> \o value),
         result |-> addrs[1]]

\* current.map((node) => ({ ...node, load, health, status }))
updateNodeMetricsInPlace(h, current, offset) ==
    LET items == h[current].items
        value == [k \in 1..Len(items) |->
                     UpdatedNode(h[items[k]], Rotated(NodeTickDraws, offset, k - 1))]
    IN  [heap   |-> Stored(h, items, value),
         result |-> current]
updateNodeMetricsOnHeap(h, current, offset) ==
    LET items == h[current].items
        addrs == Fresh(h, Len(items) + 1)
        value == [k \in 1..Len(items) |->
                     UpdatedNode(h[items[k]], Rotated(NodeTickDraws, offset, k - 1))]
    IN  [heap   |-> Stored(h, addrs,
                           <<[items |-> [k \in 1..Len(items) |-> addrs[k + 1]]]>>
                               \o value),
         result |-> addrs[1]]

\* setNodeMetrics(generateNodeMetrics())
GenerateNodes ==
    /\ \E offset \in 0..(Len(NodeInitDraws) - 1) :
          nodes' = generateNodeMetrics(offset)
    /\ nodeTicks' = 0
    /\ before' = <<>>
    /\ tickOffset' = 0
    /\ UNCHANGED <<genVars, clock, histVars, heapVars, dashVars, runs>>

\* the node interval: setNodeMetrics((prev) => updateNodeMetrics(prev))
UpdateNodes ==
    /\ nodeTicks < MaxNodeTicks
    /\ \E offset \in 0..(Len(NodeTickDraws) - 1) :
          /\ nodes' = updateNodeMetrics(nodes, offset)
          /\ tickOffset' = offset
    /\ before' = nodes
    /\ nodeTicks' = nodeTicks + 1
    /\ UNCHANGED <<genVars, clock, histVars, heapVars, dashVars, runs>>

\* setNodeMetrics(generateNodeMetrics()) with the objects it allocates; the
\* array the caller held before becomes garbage
GenerateNodesOnHeap ==
    /\ \E offset \in 0..(Len(NodeInitDraws) - 1) :
          LET made == generateNodeMetricsOnHeap(Collect(heap, {held}), offset)
          IN  /\ heap' = Collect(made.heap, {made.result})
              /\ held' = made.result
              /\ nodes' = Deref(made.heap, made.result)
    /\ prior' = NoAddress
    /\ nodeTicks' = 0
    /\ before' = <<>>
    /\ tickOffset' = 0
    /\ UNCHANGED <<genVars, clock, histVars, dashVars, runs>>

\* setNodeMetrics((prev) => updateNodeMetrics(prev)) with the objects it
\* allocates; the argument stays reachable for comparison after the call
UpdateNodesOnHeap ==
    /\ nodeTicks < MaxHeapTicks
    /\ \E offset \in 0..(Len(NodeTickDraws) - 1) :
          /\ tickOffset' = offset
          /\ LET made == updateNodeMetricsOnHeap(Collect(heap, {held}), held, offset)
             IN  /\ heap' = Collect(made.heap, {made.result, held})
                 /\ held' = made.result
                 /\ nodes' = Deref(made.heap, made.result)
    /\ prior' = held
    /\ before' = Deref(heap, held)
    /\ nodeTicks' = nodeTicks + 1
    /\ UNCHANGED <<genVars, clock, histVars, dashVars, runs>>

NextHeap ==
    \/ GenerateNodesOnHeap
    \/ UpdateNodesOnHeap

SpecHeap == Init /\ [][NextHeap]_vars

NextNodes ==
    \/ GenerateNodes
    \/ UpdateNodes

SpecNodes == Init /\ [][NextNodes]_vars

\* C1: in every population, every node's stored status is the status its
\* stored health gives: healthy from 80, degraded from 40 to below 80, down
\* below 40.
C1_StatusMatchesHealth ==
    \A k \in 1..Len(nodes) :
        /\ nodes[k].health >= 80 => nodes[k].status = "healthy"
        /\ (40 <= nodes[k].health /\ nodes[k].health < 80) =>
              nodes[k].status = "degraded"
        /\ nodes[k].health < 40 => nodes[k].status = "down"

NodeIds ==
    << "node-01", "node-02", "node-03", "node-04", "node-05", "node-06",
       "node-07", "node-08", "node-09", "node-10", "node-11", "node-12",
       "node-13", "node-14", "node-15", "node-16", "node-17", "node-18",
       "node-19", "node-20", "node-21", "node-22", "node-23", "node-24" >>

\* C10: generateNodeMetrics returns exactly 24 nodes, with ids node-01 ..
\* node-24 in order, pairwise distinct, the node at index i in region
\* REGIONS[i mod 4].
C10_Population ==
    (nodes # <<>> /\ nodeTicks = 0) =>
        /\ Len(nodes) = 24
        /\ \A k \in 1..Len(nodes) :
              /\ nodes[k].nodeId = NodeIds[k]
              /\ nodes[k].region = REGIONS[((k - 1) % 4) + 1]
        /\ \A k, m \in 1..Len(nodes) :
              k # m => nodes[k].nodeId # nodes[m].nodeId

\* a population fresh from generateNodeMetrics, with nodes of all three statuses
C10_Witness ==
    /\ nodes # <<>>
    /\ nodeTicks = 0
    /\ nodes[10].nodeId = "node-10"
    /\ nodes[24].region = "ap-south"
    /\ {nodes[k].status : k \in 1..Len(nodes)} = {"healthy", "degraded", "down"}

(***************************************************************************)
(* Properties of updateNodeMetrics on the population (SpecNodes)           *)
(***************************************************************************)
\* the draws the last updateNodeMetrics gave to the node at position k
TickDraw(k) == Rotated(NodeTickDraws, tickOffset, k - 1)

\* C12: after any number of updateNodeMetrics calls the population has the
\* cardinality and order it started with, and every node its original nodeId
\* and region.
C12_IdentityKept ==
    /\ nodes # <<>> =>
          /\ Len(nodes) = NODE_COUNT
          /\ \A k \in 1..Len(nodes) :
                /\ nodes[k].nodeId = NodeIds[k]
                /\ nodes[k].region = REGIONS[((k - 1) % 4) + 1]
    /\ nodeTicks > 0 =>
          /\ Len(nodes) = Len(before)
          /\ \A k \in 1..Len(before) :
                /\ nodes[k].nodeId = before[k].nodeId
                /\ nodes[k].region = before[k].region

\* two calls have been applied and the last one changed health and load
C12_Witness ==
    /\ nodeTicks >= 2
    /\ Len(nodes) = NODE_COUNT
    /\ \E k \in 1..Len(nodes) : nodes[k].health # before[k].health
    /\ \E k \in 1..Len(nodes) : nodes[k].load # before[k].load

StatusInputs ==
    {32 * nodes[k].health : k \in 1..Len(nodes)}
        \cup {NewHealth(before[k], TickDraw(k)) : k \in 1..Len(before)}

\* C14: determineStatus and getHealthStatus agree on every health: healthy
\* from 80, degraded from 40 to below 80, down below 40.
C14_StatusFunctionsAgree ==
    \A h \in StatusInputs \cup (0..(100 * 32)) :
        /\ getHealthStatus(h) = determineStatus(h)
        /\ h >= 80 * 32 => determineStatus(h) = "healthy"
        /\ (40 * 32 <= h /\ h < 80 * 32) => determineStatus(h) = "degraded"
        /\ h < 40 * 32 => determineStatus(h) = "down"

\* a node was just updated to exactly 40, the lower threshold
C14_Witness ==
    /\ nodeTicks > 0
    /\ \E k \in 1..Len(nodes) :
          /\ NewHealth(before[k], TickDraw(k)) = 40 * 32
          /\ nodes[k].status = "degraded"

\* C19: for a down node whose 0.3 recovery roll succeeds, healthDelta >= 0,
\* the node's new health is >= its previous health and <= 100, and the
\* node's status is the one derived from that new health.
C19_DownNodeRecovers ==
    nodeTicks > 0 =>
        \A k \in 1..Len(before) :
            (before[k].status = "down" /\ RecoveryRoll(TickDraw(k).recover)) =>
                /\ HealthDelta(before[k].status, TickDraw(k)) >= 0
                /\ nodes[k].health >= before[k].health
                /\ nodes[k].health <= 100
                /\ nodes[k].status = determineStatus(32 * nodes[k].health)

\* C11: updateNodeMetrics does not mutate its argument: after the call the
\* argument array and every node object in it hold what they held before
\* the call, and the result is a new array whose elements are new objects.
C11_ArgumentUntouched ==
    /\ nodes = Deref(heap, held)
    /\ nodeTicks > 0 =>
          /\ prior \in DOMAIN heap
          /\ Deref(heap, prior) = before
          /\ held # prior
          /\ \A k \in 1..Len(heap[held].items) :
                \A j \in 1..Len(heap[prior].items) :
                    heap[held].items[k] # heap[prior].items[j]

\* a call changed a node's health in the result while the argument kept it
C11_Witness ==
    /\ nodeTicks >= 2
    /\ prior \in DOMAIN heap
    /\ \E k \in 1..Len(before) :
          /\ heap[heap[prior].items[k]].health = before[k].health
          /\ heap[heap[held].items[k]].health # before[k].health

(***************************************************************************)
(* Dashboard: state, refs, the two intervals and the two throttled updates *)
(***************************************************************************)
UPDATE_INTERVAL      == 2000
NODE_UPDATE_INTERVAL == 3000
METRICS_THROTTLE     == 100
NODES_THROTTLE       == 150
TIME_RANGES          == <<5, 15, 30, 60>>

CreatedCap == 2

\* the ranges clicked and the draws handed to the node functions
DashRanges      == {TIME_RANGES[1], TIME_RANGES[2]}
DashInitOffsets == {0, 1}
DashTickOffsets == {0}

\* Math.floor((selectedRange.minutes * 60 * 1000) / UPDATE_INTERVAL)
MaxPointsOf(minutes) == (minutes * 60 * 1000) \div UPDATE_INTERVAL

\* samples this old or older are not told apart
OLDEST == MaxPointsOf(CHOOSE r \in DashRanges : \A q \in DashRanges : q <= r)

\* a window after n more generateDataPoint calls
Older(w, n) == [i \in 1..Len(w) |-> Min(w[i] + n, OLDEST)]

\* the array generateHistoricalData(minutes, UPDATE_INTERVAL) returns
Backfilled(minutes) ==
    [i \in 1..HistoricalPoints(minutes, UPDATE_INTERVAL) |->
        HistoricalPoints(minutes, UPDATE_INTERVAL) - i]

\* updated.slice(-maxPoints)
TrimWindowFromFront(updated, maxPoints) ==
    SubSeq(updated, 1, Min(Len(updated), maxPoints))
TrimWindow(updated, maxPoints) ==
    IF maxPoints = 0 THEN updated
    ELSE SubSeq(updated, Len(updated) - Min(Len(updated), maxPoints) + 1, Len(updated))

\* window.setInterval / window.setTimeout: an id no active timer and no
\* ref carries
NewTimerId(ts, refs) ==
    LET taken == {t.id : t \in ts} \cup refs
    IN  CHOOSE id \in 1..(Cardinality(taken) + 1) :
            /\ id \notin taken
            /\ \A j \in 1..(id - 1) : j \in taken

\* clearInterval(id) / clearTimeout(id)
ClearTimerNoop(ts, id) == ts
ClearTimer(ts, id) == {t \in ts : t.id # id}

\* the samples held by pending callbacks after n more generateDataPoint calls
OlderArgs(ts, n) ==
    {IF t.kind = "metricsThrottle" THEN [t EXCEPT !.args = Older(t.args, n)] ELSE t :
        t \in ts}

ThrottleDelay(target) ==
    IF target = "metrics" THEN METRICS_THROTTLE ELSE NODES_THROTTLE

TimeoutRefs(th) == {th[target].timeoutRef : target \in DOMAIN th} \ {0}

\* the effect of lines 53-92: cleanup of the previous run, then the body
RunIntervalEffect(live, ts, mRef, nRef, th) ==
    LET cleared == ClearTimer(ClearTimer(ts, mRef), nRef)
        mId     == NewTimerId(cleared, TimeoutRefs(th) \cup ({nRef} \ {0}))
        withM   == cleared \cup {[id |-> mId, kind |-> "metricsInterval",
                                  remaining |-> UPDATE_INTERVAL, args |-> <<>>]}
        nId     == NewTimerId(withM, TimeoutRefs(th))
        withN   == withM \cup {[id |-> nId, kind |-> "nodesInterval",
                                remaining |-> NODE_UPDATE_INTERVAL, args |-> <<>>]}
    IN  IF live
        THEN [timers |-> withN, metricsIntervalRef |-> mId, nodesIntervalRef |-> nId]
        ELSE [timers |-> cleared, metricsIntervalRef |-> mRef, nodesIntervalRef |-> nRef]

\* a call of the function useThrottle returns; lastRun is kept as the time
\* since the last run, -1 for null, counted up to the delay
Throttled(th, ts, target, args) ==
    LET since == IF th[target].lastRun = -1 THEN 0 ELSE th[target].lastRun
        delay == ThrottleDelay(target)
        cleared == ClearTimer(ts, th[target].timeoutRef)
        id    == NewTimerId(cleared, {metricsIntervalRef, nodesIntervalRef}
                                        \cup (TimeoutRefs(th) \ {th[target].timeoutRef}))
    IN  IF since >= delay
        THEN [throttle |-> [th EXCEPT ![target].lastRun = 0],
              timers   |-> ts,
              ran      |-> TRUE]
        ELSE [throttle |-> [th EXCEPT ![target] = [lastRun |-> since, timeoutRef |-> id]],
              timers   |-> cleared \cup {[id |-> id, kind |-> target \o "Throttle",
                                          remaining |-> delay - since, args |-> args]},
              ran      |-> FALSE]

\* the commit after a state change: both throttled functions are new, so the
\* interval effect runs again
Commit(live, ts, th) ==
    RunIntervalEffect(live, ts, metricsIntervalRef, nodesIntervalRef, th)

\* the metrics interval callback, lines 60-73
MetricsIntervalCallback(t) ==
    LET maxPoints == MaxPointsOf(selectedRange)
        updated   == Append(Older(metricsData, 1), 0)
        trimmed   == TrimWindow(updated, maxPoints)
        again     == (timers \ {t}) \cup {[t EXCEPT !.remaining = UPDATE_INTERVAL]}
        call      == Throttled(throttle, OlderArgs(again, 1), "metrics", trimmed)
        effect    == Commit(isLive, call.timers, call.throttle)
    IN  [metricsData |-> trimmed, nodes |-> nodes, throttle |-> call.throttle,
         effect |-> effect, advanced |-> 1, event |-> "metricTick"]

\* the nodes interval callback, lines 75-81
NodesIntervalCallback(t, offset) ==
    LET updated == updateNodeMetrics(nodes, offset)
        again   == (timers \ {t}) \cup {[t EXCEPT !.remaining = NODE_UPDATE_INTERVAL]}
        call    == Throttled(throttle, again, "nodes", updated)
        effect  == Commit(isLive, call.timers, call.throttle)
    IN  [metricsData |-> metricsData, nodes |-> updated, throttle |-> call.throttle,
         effect |-> effect, advanced |-> 0, event |-> "nodeTick"]

\* the timeout callback of useThrottle: callback(...args), lastRun = Date.now()
ThrottleTimeoutCallback(t) ==
    LET target == IF t.kind = "metricsThrottle" THEN "metrics" ELSE "nodes"
        ran    == [throttle EXCEPT ![target].lastRun = 0]
        newMetrics == IF target = "metrics" THEN t.args ELSE metricsData
        newNodes   == IF target = "nodes" THEN t.args ELSE nodes
        rest   == timers \ {t}
        effect == IF newMetrics # metricsData \/ newNodes # nodes
                  THEN Commit(isLive, rest, ran)
                  ELSE [timers |-> rest, metricsIntervalRef |-> metricsIntervalRef,
                        nodesIntervalRef |-> nodesIntervalRef]
    IN  [metricsData |-> newMetrics, nodes |-> newNodes, throttle |-> ran,
         effect |-> effect, advanced |-> 0, event |-> target \o "Flush"]

\* first render, then initializeData and the interval effect, then the
\* commit of what initializeData set
Mount ==
    /\ ~mounted
    /\ mounted' = TRUE
    /\ metricsData' = Backfilled(selectedRange)
    /\ \E offset \in DashInitOffsets : nodes' = generateNodeMetrics(offset)
    /\ created' = 1
    /\ advanced' = HistoricalPoints(selectedRange, UPDATE_INTERVAL)
    /\ LET first  == Commit(isLive, timers, throttle)
           second == RunIntervalEffect(isLive, first.timers, first.metricsIntervalRef,
                                       first.nodesIntervalRef, throttle)
       IN  /\ timers' = second.timers
           /\ metricsIntervalRef' = second.metricsIntervalRef
           /\ nodesIntervalRef' = second.nodesIntervalRef
    /\ event' = "mount"
    /\ UNCHANGED <<genVars, clock, histVars, nodeTicks, obsVars, heapVars,
                   selectedRange, isLive, throttle, runs>>

\* handleRangeChange(range), then the commit; when the minutes changed
\* initializeData is a new function and its effect runs again
HandleRangeChange(range) ==
    /\ mounted
    /\ selectedRange' = range
    /\ metricsData' = Backfilled(range)
    /\ LET changed == range # selectedRange
           calls_  == IF changed THEN 2 * HistoricalPoints(range, UPDATE_INTERVAL)
                      ELSE HistoricalPoints(range, UPDATE_INTERVAL)
           effect  == Commit(isLive, OlderArgs(timers, calls_), throttle)
       IN  /\ advanced' = calls_
           /\ IF changed
              THEN /\ \E offset \in DashInitOffsets : nodes' = generateNodeMetrics(offset)
                   /\ created' = Min(created + 1, CreatedCap)
              ELSE UNCHANGED <<nodes, created>>
           /\ timers' = effect.timers
           /\ metricsIntervalRef' = effect.metricsIntervalRef
           /\ nodesIntervalRef' = effect.nodesIntervalRef
    /\ event' = "rangeChange"
    /\ UNCHANGED <<genVars, clock, histVars, nodeTicks, obsVars, heapVars,
                   mounted, isLive, throttle, runs>>

\* handleToggleLive(), then the commit
HandleToggleLive ==
    /\ mounted
    /\ isLive' = ~isLive
    /\ LET effect == Commit(~isLive, timers, throttle)
       IN  /\ timers' = effect.timers
           /\ metricsIntervalRef' = effect.metricsIntervalRef
           /\ nodesIntervalRef' = effect.nodesIntervalRef
    /\ advanced' = 0
    /\ event' = "toggleLive"
    /\ UNCHANGED <<genVars, clock, histVars, nodeVars, obsVars, heapVars,
                   mounted, selectedRange, metricsData, throttle, created, runs>>

\* time passes until the next timer is due
Elapse ==
    /\ timers # {}
    /\ \A t \in timers : t.remaining > 0
    /\ LET d == CHOOSE d \in {t.remaining : t \in timers} :
                    \A t \in timers : d <= t.remaining
       IN  /\ timers' = {[t EXCEPT !.remaining = t.remaining - d] : t \in timers}
           /\ throttle' = [target \in DOMAIN throttle |->
                             IF throttle[target].lastRun = -1 THEN throttle[target]
                             ELSE [throttle[target] EXCEPT
                                      !.lastRun = Min(throttle[target].lastRun + d,
                                                      ThrottleDelay(target))]]
    /\ advanced' = 0
    /\ event' = "elapse"
    /\ UNCHANGED <<genVars, clock, histVars, nodeVars, obsVars, heapVars,
                   mounted, selectedRange, isLive, metricsData,
                   metricsIntervalRef, nodesIntervalRef, created, runs>>

\* a due timer runs its callback
TimerFires ==
    /\ \E t \in timers :
          /\ t.remaining = 0
          /\ \E offset \in DashTickOffsets :
                LET out == IF t.kind = "metricsInterval" THEN MetricsIntervalCallback(t)
                           ELSE IF t.kind = "nodesInterval"
                                THEN NodesIntervalCallback(t, offset)
                           ELSE ThrottleTimeoutCallback(t)
                IN  /\ metricsData' = out.metricsData
                    /\ nodes' = out.nodes
                    /\ throttle' = out.throttle
                    /\ timers' = out.effect.timers
                    /\ metricsIntervalRef' = out.effect.metricsIntervalRef
                    /\ nodesIntervalRef' = out.effect.nodesIntervalRef
                    /\ advanced' = out.advanced
                    /\ event' = out.event
    /\ UNCHANGED <<genVars, clock, histVars, nodeTicks, obsVars, heapVars,
                   mounted, selectedRange, isLive, created, runs>>

NextDashboard ==
    \/ Mount
    \/ \E range \in DashRanges : HandleRangeChange(range)
    \/ HandleToggleLive
    \/ Elapse
    \/ TimerFires

SpecDashboard == Init /\ [][NextDashboard]_vars

\* the event loop runs due callbacks and time passes; clicks are never forced
SpecDashboardLive ==
    /\ Init
    /\ [][NextDashboard]_vars
    /\ WF_vars(Mount)
    /\ WF_vars(Elapse)
    /\ WF_vars(TimerFires)

\* C15: on every live append the new window is the previous window plus the
\* new sample with the oldest samples evicted first, its length never
\* exceeds maxPoints (150, 450, 900, 1800 for the four ranges), and a window
\* of maxPoints samples keeps exactly that length.
C15_WindowTrimmed ==
    /\ [i \in 1..Len(TIME_RANGES) |-> MaxPointsOf(TIME_RANGES[i])]
          = <<150, 450, 900, 1800>>
    /\ [][event' = "metricTick" =>
            LET maxPoints == MaxPointsOf(selectedRange)
                n == Len(metricsData)
                m == Len(metricsData')
            IN  /\ m <= maxPoints
                /\ m = Min(n + 1, maxPoints)
                /\ n = maxPoints => m = maxPoints
                /\ metricsData'[m] = 0
                /\ \A i \in 1..(m - 1) :
                      metricsData'[i] = Older(metricsData, 1)[n + 1 - m + i]]_vars

\* a live append to a full 15-minute window evicted its oldest sample
C15_Witness ==
    /\ event = "metricTick"
    /\ selectedRange = 15
    /\ Len(metricsData) = 450
    /\ metricsData[450] = 0
    /\ metricsData[1] = 449

\* C16: the node population is created exactly once per Dashboard session:
\* after mounting no step calls generateNodeMetrics again, the population
\* changes only by updateNodeMetrics, and a range change leaves it as it is.
C16_PopulationCreatedOnce ==
    [][mounted =>
          /\ created' = created
          /\ nodes' # nodes => event' \in {"nodeTick", "nodesFlush"}
          /\ selectedRange' # selectedRange => nodes' = nodes]_vars

\* C17: while live monitoring stays on and nobody clicks, node ticks keep
\* happening: updateNodeMetrics is applied again and again.
C17_NodeTicksKeepHappening ==
    <>[](mounted /\ isLive /\ event \notin {"rangeChange", "toggleLive"})
        => []<>(event = "nodeTick")

\* C18: there is at most one active metrics interval and at most one active
\* node interval, and while isLive is false there is none and no interval
\* callback runs.
C18_OneIntervalEach ==
    /\ Cardinality({t \in timers : t.kind = "metricsInterval"}) <= 1
    /\ Cardinality({t \in timers : t.kind = "nodesInterval"}) <= 1
    /\ ~isLive =>
          /\ \A t \in timers : t.kind \notin {"metricsInterval", "nodesInterval"}
          /\ event \notin {"metricTick", "nodeTick"}

\* paused within the throttle delay of a tick: the deferred update ran and
\* left no timer behind
C18_Witness ==
    /\ mounted
    /\ ~isLive
    /\ event = "metricsFlush"
    /\ timers = {}

\* C21: the bias on healthDelta depends only on the node's status and the
\* roll: |delta|*2 only for a down node whose 0.3 roll succeeds, -|delta|*1.5
\* only for a degraded node whose 0.1 roll succeeds, and otherwise the base
\* delta in [-1.5, 1.5] unchanged; a degraded node whose decline roll fails
\* never receives the negative bias.
C21_BiasOnlyOnRoll ==
    nodeTicks > 0 =>
        \A k \in 1..Len(before) :
            LET base     == 3 * (2 * TickDraw(k).delta - 16)
                recovers == before[k].status = "down"
                               /\ TickDraw(k).recover * 10 < 3 * 16
                declines == before[k].status = "degraded"
                               /\ TickDraw(k).decline * 10 < 16
                applied  == IF recovers THEN 2 * Abs(base)
                            ELSE IF declines THEN -((3 * Abs(base)) \div 2)
                            ELSE base
            IN  /\ -48 <= base /\ base <= 48
                /\ HealthDelta(before[k].status, TickDraw(k)) = applied
                /\ nodes[k].health =
                      RoundHealth(Max(0, Min(100 * 32, 32 * before[k].health + applied)))

\* a degraded node whose decline roll failed on a positive delta and rose
C21_Witness ==
    /\ nodeTicks > 0
    /\ \E k \in 1..Len(before) :
          /\ before[k].status = "degraded"
          /\ ~DeclineRoll(TickDraw(k).decline)
          /\ TickDraw(k).delta > 8
          /\ nodes[k].health > before[k].health

\* C22: on each generateDataPoint the increment added to cpuTrend before
\* clamping is uniform(-1,1)*2, ranging over [-2, 2], and the increment added
\* to memoryTrend is uniform(-0.75,0.75)*2, ranging over [-1.5, 1.5]: with r
\* the Math.random() result, (2r - 1) * 2 and (1.5r - 0.75) * 2.
C22_TrendIncrements ==
    Len(used) = 1 =>
        /\ gen.cpuTrend =
              ClampCpuTrend(entry.cpuTrend + 8 * (used[1].cpuTrend - 8))
        /\ gen.memoryTrend =
              ClampMemoryTrend(entry.memoryTrend + 6 * (used[1].memoryTrend - 8))

\* C23: in one updateNodeMetrics call a node's health changes by at most 3,
\* and no node's status moves directly from healthy to down or from down to
\* healthy.
C23_GradualHealth ==
    nodeTicks > 0 =>
        \A k \in 1..Len(before) :
            /\ nodes[k].health - before[k].health \in -3..3
            /\ ~(before[k].status = "healthy" /\ nodes[k].status = "down")
            /\ ~(before[k].status = "down" /\ nodes[k].status = "healthy")

\* a down node recovered by the largest step there is and left the down band
C23_Witness ==
    /\ nodeTicks > 0
    /\ \E k \in 1..Len(before) :
          /\ before[k].status = "down"
          /\ nodes[k].health = before[k].health + 3
          /\ nodes[k].status = "degraded"

\* C24: errorSpikeCooldown is always an integer in 0..15, a spike happens
\* only on a call where the cooldown is 0 after the decrement, and two spike
\* calls of one generator are at least 15 calls apart.
C24_SpikesApart ==
    /\ gen.errorSpikeCooldown \in 0..15
    /\ branch = "spike" =>
          /\ rolled
          /\ age \notin 1..14

\* a spike more than 15 calls after the spike before it
C24_Witness ==
    /\ branch = "spike"
    /\ age > 15
    /\ gen.errorSpikeCooldown = 15

(***************************************************************************)
(* generateHistoricalData on every kind of argument: zero and negative     *)
(* intervalMs too.  Here `points` and the timestamps are JS numbers: an    *)
(* integer, or Infinity, -Infinity or NaN.                                 *)
(***************************************************************************)
AnyMinutes     == {-1, 0, 1}
AnyIntervalsMs == {-30000, 0, 30000, 60000}

Finite(n)      == [tag |-> "finite", n |-> n]
NotFinite(tag) == [tag |-> tag, n |-> 0]

\* Math.floor(a / b) for integers a and b
FloorOfQuotient(a, b) ==
    IF b > 0 THEN Finite(a \div b)
    ELSE IF b < 0 THEN Finite((-a) \div (-b))
    ELSE IF a > 0 THEN NotFinite("Infinity")
    ELSE IF a < 0 THEN NotFinite("-Infinity")
    ELSE NotFinite("NaN")

\* Math.floor((minutes * 60 * 1000) / intervalMs)
HistoricalPointsOfAny(minutes, intervalMs) ==
    FloorOfQuotient(minutes * 60 * 1000, intervalMs)

\* i < points, i an integer
LessThan(i, points) ==
    \/ points.tag = "Infinity"
    \/ points.tag = "finite" /\ i < points.n

\* now - (points - i) * intervalMs; points is not finite only when
\* intervalMs is 0, and then Infinity * 0 is NaN
HistoricalTimestampOfAny(now, points, i, intervalMs) ==
    IF points.tag = "finite"
    THEN Finite(HistoricalTimestamp(now, points.n, i, intervalMs))
    ELSE NotFinite("NaN")

\* entry of generateHistoricalData(minutes, intervalMs)
CallHistoricalOfAny ==
    /\ pc \in {"idle", "returned"}
    /\ \E minutes \in AnyMinutes, intervalMs \in AnyIntervalsMs :
          LET points == HistoricalPointsOfAny(minutes, intervalMs)
          IN  /\ points.tag = "finite" => calls + Max(points.n, 0) <= MaxCalls
              /\ hist' = [now |-> clock, points |-> points, i |-> 0,
                          intervalMs |-> intervalMs, minutes |-> minutes]
    /\ data' = <<>>
    /\ entry' = gen
    /\ used' = <<>>
    /\ pc' = "loop"
    /\ UNCHANGED <<genVars, clock, result, calls, nodeVars, obsVars, heapVars, dashVars, runs>>

\* one iteration of the loop: data.push(this.generateDataPoint(timestamp))
HistoricalLoopOfAny ==
    /\ pc = "loop"
    /\ LessThan(hist.i, hist.points)
    /\ calls < MaxCalls
    /\ \E dv \in BackfillDraws :
          LET timestamp == HistoricalTimestampOfAny(hist.now, hist.points, hist.i,
                                                    hist.intervalMs)
              r == HistoricalDataPoint(gen, timestamp, dv)
          IN  /\ ApplyDataPoint(r, dv)
              /\ data' = Append(data, r.point)
              /\ used' = Append(used, dv)
    /\ hist' = [hist EXCEPT !.i = @ + 1]
    /\ calls' = calls + 1
    /\ UNCHANGED <<clock, pc, result, entry, nodeVars, obsVars, heapVars, dashVars, runs>>

\* loop exit: return data
HistoricalReturnOfAny ==
    /\ pc = "loop"
    /\ ~LessThan(hist.i, hist.points)
    /\ result' = data
    /\ pc' = "returned"
    /\ UNCHANGED <<genVars, clock, hist, data, calls, entry, used, nodeVars, obsVars, heapVars, dashVars, runs>>

NextOfAny ==
    \/ CallHistoricalOfAny
    \/ HistoricalLoopOfAny
    \/ HistoricalReturnOfAny

SpecOfAny == InitBackfill /\ [][NextOfAny]_vars

\* C25: generateHistoricalData is total: for every minutes and every
\* intervalMs (positive, zero or negative) the loop it enters ends after a
\* finite number of generateDataPoint calls: some iteration count i fails
\* the loop test i < points.
C25_BackfillTerminates ==
    pc = "loop" => \E i \in 0..MaxCalls : ~LessThan(i, hist.points)

(***************************************************************************)
(* useThrottle on its own: the functions it returns are called at any      *)
(* instant with any arguments, time passes in steps of ThrottleQuantum,    *)
(* and a timeout runs at its deadline, before or after a call made at the  *)
(* same instant.  The callbacks do nothing but run.                        *)
(***************************************************************************)
ThrottleQuantum == 50
ThrottleArgs == {<<0>>, <<1>>}

\* callback(...args) has run for the function `target`
CallbackRan(rs, target) ==
    [rs EXCEPT ![target] = [since |-> 0, gap |-> rs[target].since]]

\* throttled(...args), lines 11-28
CallThrottled(target, args) ==
    /\ LET call == Throttled(throttle, timers, target, args)
       IN  /\ throttle' = call.throttle
           /\ timers' = call.timers
           /\ runs' = IF call.ran THEN CallbackRan(runs, target) ELSE runs
           /\ event' = IF call.ran THEN "throttledRun" ELSE "throttledDefer"
    /\ UNCHANGED <<genVars, clock, histVars, nodeVars, obsVars, heapVars,
                   mounted, selectedRange, isLive, metricsData,
                   metricsIntervalRef, nodesIntervalRef, advanced, created>>

\* the timeout callback of lines 23-26
ThrottleTimeoutFires ==
    /\ \E t \in timers :
          /\ t.remaining = 0
          /\ LET target == IF t.kind = "metricsThrottle" THEN "metrics" ELSE "nodes"
             IN  /\ timers' = timers \ {t}
                 /\ throttle' = [throttle EXCEPT ![target].lastRun = 0]
                 /\ runs' = CallbackRan(runs, target)
    /\ event' = "throttledFlush"
    /\ UNCHANGED <<genVars, clock, histVars, nodeVars, obsVars, heapVars,
                   mounted, selectedRange, isLive, metricsData,
                   metricsIntervalRef, nodesIntervalRef, advanced, created>>

\* Date.now() advances; no timeout is overdue
ThrottleTimePasses ==
    /\ \A t \in timers : t.remaining >= ThrottleQuantum
    /\ timers' = {[t EXCEPT !.remaining = t.remaining - ThrottleQuantum] : t \in timers}
    /\ throttle' = [target \in DOMAIN throttle |->
                      IF throttle[target].lastRun = -1 THEN throttle[target]
                      ELSE [throttle[target] EXCEPT
                               !.lastRun = Min(throttle[target].lastRun + ThrottleQuantum,
                                               ThrottleDelay(target))]]
    /\ runs' = [target \in DOMAIN runs |->
                  IF runs[target].since = -1 THEN runs[target]
                  ELSE [runs[target] EXCEPT
                           !.since = Min(runs[target].since + ThrottleQuantum,
                                         ThrottleDelay(target))]]
    /\ event' = "elapse"
    /\ UNCHANGED <<genVars, clock, histVars, nodeVars, obsVars, heapVars,
                   mounted, selectedRange, isLive, metricsData,
                   metricsIntervalRef, nodesIntervalRef, advanced, created>>

NextThrottle ==
    \/ \E target \in DOMAIN throttle, args \in ThrottleArgs : CallThrottled(target, args)
    \/ ThrottleTimeoutFires
    \/ ThrottleTimePasses

SpecThrottle == Init /\ [][NextThrottle]_vars

\* C26: two runs of the callback of a throttled function are never less
\* than its delay apart, and at most one deferred run of it is pending.
C26_RateLimited ==
    \A target \in DOMAIN throttle :
        /\ runs[target].gap = -1 \/ runs[target].gap >= ThrottleDelay(target)
        /\ Cardinality({t \in timers : t.kind = target \o "Throttle"}) <= 1

\* C27: a deferred throttled update never puts an older window back: the
\* window a metrics timeout callback installs ends with the newest sample
\* the generator has made, also when a range change came in between.
C27_NoStaleWindow ==
    event = "metricsFlush" =>
        /\ Len(metricsData) > 0
        /\ metricsData[Len(metricsData)] = 0

\* C28: a startup and a range change each make exactly one backfill: the
\* generator advances by floor(minutes * 60000 / 2000) generateDataPoint
\* calls for the range selected by the step.
C28_OneBackfill ==
    event \in {"mount", "rangeChange"} =>
        advanced = HistoricalPoints(selectedRange, UPDATE_INTERVAL)

\* export const ERROR_THRESHOLD = 1.0, in hundredths
ERROR_THRESHOLD == 100

\* C29: the errorRate of a sample lies in the band of the branch its call
\* took: at most 0.30 on a base call, 0.5..1.5 on a plateau call (cooldown
\* 1..4 after the decrement), 2.0..5.0 on a spike call; so it exceeds
\* ERROR_THRESHOLD only on a spike call or a plateau call.
C29_ErrorBands ==
    Returned =>
        /\ branch = "base" =>
              /\ sample.errorRate \in 0..30
              /\ ~InPlateau(gen.errorSpikeCooldown)
        /\ branch = "plateau" =>
              /\ sample.errorRate \in 50..150
              /\ gen.errorSpikeCooldown \in 1..4
        /\ branch = "spike" =>
              /\ sample.errorRate \in 200..500
              /\ gen.errorSpikeCooldown = SPIKE_COOLDOWN
        /\ sample.errorRate > ERROR_THRESHOLD => branch \in {"spike", "plateau"}

C29_Witness ==
    /\ branch = "plateau"
    /\ sample.errorRate > ERROR_THRESHOLD
    /\ gen.errorSpikeCooldown = 1

\* C30: every sample has cpu in 26..64 and memory in 47..73, so neither
\* clamp to 0..100 binds, and its rps is at least 749.
C30_CpuMemoryInside ==
    Returned =>
        /\ sample.cpu \in (26 * 32)..(64 * 32)
        /\ sample.memory \in (47 * 32)..(73 * 32)
        /\ sample.rps >= 749

C30_Witness ==
    /\ Returned
    /\ sample.cpu = 26 * 32
    /\ sample.memory = 47 * 32
    /\ sample.rps = 750

====
